---- MODULE Spec2Model ----
(***************************************************************************)
(* ReverseIterableMap: a Map-backed index from keys to nodes plus a        *)
(* doubly-linked order over the nodes, and the reverse-iterable iterators  *)
(* created from it.                                                        *)
(*                                                                         *)
(* Objects live in a heap `nodes` (reference -> node).  A node that no     *)
(* reference can reach any more is reclaimed, as by the JS garbage         *)
(* collector, so MaxNodes bounds the nodes reachable at one time, not the  *)
(* number of calls.                                                        *)
(***************************************************************************)
EXTENDS Integers, Sequences, FiniteSets, TLC

\* ------------------------------------------------------------------ bounds
\* node objects reachable at one time
MaxNodes == 3
\* number of distinct keys besides `undefined`
NumKeys == 2
\* modifications of the map while an iterator over it is in use
MaxEdits == 2

\* --------------------------------------------------------------- JS values
\* the JS primitive `undefined` (as a key, a value, or an unassigned `let`)
undefined == "undefined"
\* the JS `null` node reference
null == 0
\* `undefined` where a node reference is expected (Map.prototype.get miss,
\* omitted startNode parameter)
undefinedNode == 0 - 1

KeyNames == <<"k1", "k2", "k3", "k4">>
Keys == {undefined} \cup {KeyNames[i] : i \in 1..NumKeys}
Values == {undefined, "a"}
Refs == 1..MaxNodes

\* A JS value handed to a consumer: a primitive x is <<x>>, the array
\* [k, v] is <<k, v>>.  An array is never === undefined.
Prim(x) == <<x>>
Arr(k, v) == <<k, v>>

\* An element of the iterable handed to the constructor: an array with its
\* items, or a value that is no array.
JsArray(items) == [isArray |-> TRUE, items |-> items]
JsPrim(x) == [isArray |-> FALSE, items |-> <<x>>]

\* Array.isArray(element)
IsArray(element) == element.isArray

\* array[j - 1]: an index past the end reads undefined
At(array, j) == IF j <= Len(array.items) THEN array.items[j] ELSE undefined

\* the object handed to a forEach callback as its third argument
MapRef == "this"
\* the thisArg values of forEach()/forEachReverse(); undefined when omitted
ThisArgs == {undefined, "thisArg"}

VARIABLES
    nodes,        \* heap of ReverseIterableMapNode objects: reference -> node
    _map,         \* this._map: key -> node reference (DOMAIN = keys present)
    _firstNode,   \* this._firstNode
    _lastNode,    \* this._lastNode
    it,           \* the iterator object (closure state of _iterableIterator)
    other,        \* a second iterator object, created by another factory call
    made,         \* the call that created `it`: factory method and its key
    call,         \* the call made last: method name and arguments
    deleted,      \* what the last call returned, when it was delete()
    result,       \* what the last call returned, when it was it.next()
    collected,    \* what the last call built, when it was the spread [...it]
    got,          \* what the last call returned, when it was get()
    had,          \* what the last call returned, when it was has()
    invoked,      \* the callback invocations the last call made, when it was
                  \* forEach() or forEachReverse()
    thrown,       \* the error the last call threw, "none" when it returned
    source,       \* the iterable the map was constructed from by the last `new`
    stored,       \* per key, the value of the latest set()/setFirst() of that
                  \* key since it was last removed by delete() or clear()
    edits,        \* the number of modifications made to the map since its
                  \* iterator was created, where they are counted
    mirror        \* a second map object, given the calls of the first with set
                  \* and setFirst exchanged, where it is used

vars ==
    <<nodes, _map, _firstNode, _lastNode, it, other, made, call, deleted, result, collected,
      got, had, invoked, thrown, source, stored, edits, mirror>>

\* the map object `this`
This ==
    [nodes |-> nodes, _map |-> _map, _firstNode |-> _firstNode, _lastNode |-> _lastNode]

\* new Map()
EmptyMap == [k \in {} |-> null]
EmptyHeap == [n \in {} |-> null]

\* the fields a new map object is given before the iterable is read
NewThis == [nodes |-> EmptyHeap, _map |-> EmptyMap, _firstNode |-> null, _lastNode |-> null]

\* ------------------------------------------------------------ map queries
size(this) == Cardinality(DOMAIN this._map)

\* has() that tests the stored value
has_byValue(this, key) ==
    /\ key \in DOMAIN this._map
    /\ this.nodes[this._map[key]].value # undefined

has(this, key) == key \in DOMAIN this._map

\* Map.prototype.get on the index
MapGet(this, key) == IF key \in DOMAIN this._map THEN this._map[key] ELSE undefinedNode

get(this, key) ==
    LET node == MapGet(this, key)
    IN  IF node # undefinedNode THEN this.nodes[node].value ELSE undefined

\* ------------------------------------------------------------ map updates
\* _updateExistingNode() that finds the node and leaves its value
_updateExistingNode_keepValue(this, key, value) ==
    [this |-> this, ret |-> MapGet(this, key) # undefinedNode]

_updateExistingNode(this, key, value) ==
    LET node == MapGet(this, key)
    IN  IF node # undefinedNode
        THEN [this |-> [this EXCEPT !.nodes[node].value = value], ret |-> TRUE]
        ELSE [this |-> this, ret |-> FALSE]

\* reference of a newly created object: a free heap slot
NewRef(h) == CHOOSE n \in Refs \ DOMAIN h : \A m \in Refs \ DOMAIN h : n <= m

\* the node literal of set()/setFirst()
NewNode(key, value) ==
    [key |-> key, value |-> value, nextNode |-> null, prevNode |-> null]

\* set() that links the node to the tail also when the key was present
set_relinking(this, key, value) ==
    LET u == _updateExistingNode(this, key, value)
        node == IF u.ret THEN MapGet(this, key) ELSE NewRef(this.nodes)
        h0 == IF u.ret THEN u.this.nodes ELSE (node :> NewNode(key, value)) @@ this.nodes
    IN  IF this._firstNode = null /\ this._lastNode = null
        THEN [nodes |-> h0, _map |-> (key :> node) @@ this._map,
              _firstNode |-> node, _lastNode |-> node]
        ELSE [nodes |-> [h0 EXCEPT ![node].prevNode = this._lastNode,
                                   ![this._lastNode].nextNode = node],
              _map |-> (key :> node) @@ this._map,
              _firstNode |-> this._firstNode,
              _lastNode |-> node]

set(this, key, value) ==
    LET u == _updateExistingNode(this, key, value)
        node == NewRef(this.nodes)
        h0 == (node :> NewNode(key, value)) @@ this.nodes
        h1 == IF this._lastNode # null
              THEN [h0 EXCEPT ![node].prevNode = this._lastNode,
                              ![this._lastNode].nextNode = node]
              ELSE h0
    IN  IF u.ret
        THEN u.this
        ELSE [nodes |-> h1,
              _map |-> (key :> node) @@ this._map,
              _firstNode |-> IF this._firstNode = null THEN node ELSE this._firstNode,
              _lastNode |-> node]

\* setFirst() that moves a present key to the head
setFirst_relinking(this, key, value) ==
    LET u == _updateExistingNode(this, key, value)
        node == IF u.ret THEN MapGet(this, key) ELSE NewRef(this.nodes)
        h0 == IF u.ret THEN u.this.nodes ELSE (node :> NewNode(key, value)) @@ this.nodes
    IN  IF this._firstNode = null /\ this._lastNode = null
        THEN [nodes |-> h0, _map |-> (key :> node) @@ this._map,
              _firstNode |-> node, _lastNode |-> node]
        ELSE [nodes |-> [h0 EXCEPT ![node].nextNode = this._firstNode,
                                   ![this._firstNode].prevNode = node],
              _map |-> (key :> node) @@ this._map,
              _lastNode |-> this._lastNode,
              _firstNode |-> node]

\* setFirst() that leaves the old head without its back link
setFirst_noBackLink(this, key, value) ==
    LET u == _updateExistingNode(this, key, value)
        node == NewRef(this.nodes)
        h0 == (node :> NewNode(key, value)) @@ this.nodes
    IN  IF u.ret
        THEN u.this
        ELSE [nodes |-> IF this._firstNode # null
                        THEN [h0 EXCEPT ![node].nextNode = this._firstNode]
                        ELSE h0,
              _map |-> (key :> node) @@ this._map,
              _lastNode |-> IF this._lastNode = null THEN node ELSE this._lastNode,
              _firstNode |-> node]

\* setFirst() that never sets the last node reference
setFirst_headOnly(this, key, value) ==
    LET u == _updateExistingNode(this, key, value)
        node == NewRef(this.nodes)
        h0 == (node :> NewNode(key, value)) @@ this.nodes
        h1 == IF this._firstNode # null
              THEN [h0 EXCEPT ![node].nextNode = this._firstNode,
                              ![this._firstNode].prevNode = node]
              ELSE h0
    IN  IF u.ret
        THEN u.this
        ELSE [nodes |-> h1,
              _map |-> (key :> node) @@ this._map,
              _lastNode |-> this._lastNode,
              _firstNode |-> node]

setFirst(this, key, value) ==
    LET u == _updateExistingNode(this, key, value)
        node == NewRef(this.nodes)
        h0 == (node :> NewNode(key, value)) @@ this.nodes
        h1 == IF this._firstNode # null
              THEN [h0 EXCEPT ![node].nextNode = this._firstNode,
                              ![this._firstNode].prevNode = node]
              ELSE h0
    IN  IF u.ret
        THEN u.this
        ELSE [nodes |-> h1,
              _map |-> (key :> node) @@ this._map,
              _lastNode |-> IF this._lastNode = null THEN node ELSE this._lastNode,
              _firstNode |-> node]

\* an index that keeps the entry of a deleted key
MapDelete_keep(m, key) == m

\* Map.prototype.delete on the index
MapDelete(m, key) == [k \in (DOMAIN m) \ {key} |-> m[k]]

\* delete() that only repairs the back link when it removes a middle node
delete_halfSplice(this, key) ==
    LET node == MapGet(this, key)
        h == this.nodes
        unlinked ==
            IF h[node].prevNode # null /\ h[node].nextNode # null
            THEN [this EXCEPT !.nodes =
                     [h EXCEPT ![h[node].nextNode].prevNode = h[node].prevNode]]
            ELSE IF h[node].prevNode # null
            THEN [this EXCEPT !.nodes = [h EXCEPT ![h[node].prevNode].nextNode = null],
                              !._lastNode = h[node].prevNode]
            ELSE IF h[node].nextNode # null
            THEN [this EXCEPT !.nodes = [h EXCEPT ![h[node].nextNode].prevNode = null],
                              !._firstNode = h[node].nextNode]
            ELSE [this EXCEPT !._firstNode = null, !._lastNode = null]
    IN  IF node = undefinedNode
        THEN [this |-> this, ret |-> FALSE]
        ELSE [this |-> [unlinked EXCEPT !._map = MapDelete(this._map, key)],
              ret |-> TRUE]

\* delete() without the early return: a missing key ends in the last branch
delete_noEarlyReturn(this, key) ==
    LET node == MapGet(this, key)
        h == this.nodes
        unlinked ==
            IF node = undefinedNode
            THEN [this EXCEPT !._firstNode = null, !._lastNode = null]
            ELSE IF h[node].prevNode # null /\ h[node].nextNode # null
            THEN LET h1 == [h EXCEPT ![h[node].prevNode].nextNode = h[node].nextNode]
                 IN  [this EXCEPT !.nodes =
                          [h1 EXCEPT ![h1[node].nextNode].prevNode = h1[node].prevNode]]
            ELSE IF h[node].prevNode # null
            THEN [this EXCEPT !.nodes = [h EXCEPT ![h[node].prevNode].nextNode = null],
                              !._lastNode = h[node].prevNode]
            ELSE IF h[node].nextNode # null
            THEN [this EXCEPT !.nodes = [h EXCEPT ![h[node].nextNode].prevNode = null],
                              !._firstNode = h[node].nextNode]
            ELSE [this EXCEPT !._firstNode = null, !._lastNode = null]
    IN  [this |-> [unlinked EXCEPT !._map = MapDelete(this._map, key)],
         ret |-> node # undefinedNode]

\* delete() whose branch for the only node resets the head alone
delete_soleKeepsTail(this, key) ==
    LET node == MapGet(this, key)
        h == this.nodes
        unlinked ==
            IF h[node].prevNode # null /\ h[node].nextNode # null
            THEN LET h1 == [h EXCEPT ![h[node].prevNode].nextNode = h[node].nextNode]
                 IN  [this EXCEPT !.nodes =
                          [h1 EXCEPT ![h1[node].nextNode].prevNode = h1[node].prevNode]]
            ELSE IF h[node].prevNode # null
            THEN [this EXCEPT !.nodes = [h EXCEPT ![h[node].prevNode].nextNode = null],
                              !._lastNode = h[node].prevNode]
            ELSE IF h[node].nextNode # null
            THEN [this EXCEPT !.nodes = [h EXCEPT ![h[node].nextNode].prevNode = null],
                              !._firstNode = h[node].nextNode]
            ELSE [this EXCEPT !._firstNode = null]
    IN  IF node = undefinedNode
        THEN [this |-> this, ret |-> FALSE]
        ELSE [this |-> [unlinked EXCEPT !._map = MapDelete(this._map, key)],
              ret |-> TRUE]

\* delete(key) that also clears the links of the node it removes
delete_resetLinks(this, key) ==
    LET node == MapGet(this, key)
        removed == delete_noEarlyReturn(this, key)
    IN  IF node = undefinedNode
        THEN [this |-> this, ret |-> FALSE]
        ELSE [removed EXCEPT !.this.nodes[node].prevNode = null,
                             !.this.nodes[node].nextNode = null]

delete(this, key) ==
    LET node == MapGet(this, key)
        h == this.nodes
        unlinked ==
            IF h[node].prevNode # null /\ h[node].nextNode # null
            THEN \* `node` is in the middle
                 LET h1 == [h EXCEPT ![h[node].prevNode].nextNode = h[node].nextNode]
                 IN  [this EXCEPT !.nodes =
                          [h1 EXCEPT ![h1[node].nextNode].prevNode = h1[node].prevNode]]
            ELSE IF h[node].prevNode # null
            THEN \* `node` is the last node
                 [this EXCEPT !.nodes = [h EXCEPT ![h[node].prevNode].nextNode = null],
                              !._lastNode = h[node].prevNode]
            ELSE IF h[node].nextNode # null
            THEN \* `node` is the first node
                 [this EXCEPT !.nodes = [h EXCEPT ![h[node].nextNode].prevNode = null],
                              !._firstNode = h[node].nextNode]
            ELSE \* `node` is the first and last node
                 [this EXCEPT !._firstNode = null, !._lastNode = null]
    IN  IF node = undefinedNode
        THEN [this |-> this, ret |-> FALSE]
        ELSE [this |-> [unlinked EXCEPT !._map = MapDelete(this._map, key)],
              ret |-> TRUE]

\* clear() that forgets the index
clear_keepIndex(this) ==
    [this EXCEPT !._firstNode = null, !._lastNode = null]

\* clear() that leaves the tail reference
clear_keepLast(this) ==
    [this EXCEPT !._map = EmptyMap, !._firstNode = null]

clear(this) ==
    [this EXCEPT !._map = EmptyMap, !._firstNode = null, !._lastNode = null]

\* a constructor loop that stores the first value of a repeated key
RECURSIVE SetAll_keepFirst(_, _, _)
SetAll_keepFirst(this, iterable, j) ==
    IF j > Len(iterable) THEN [this |-> this, thrown |-> "none"]
    ELSE IF ~IsArray(iterable[j]) THEN [this |-> this, thrown |-> "TypeError"]
    ELSE IF has(this, At(iterable[j], 1))
         THEN SetAll_keepFirst(this, iterable, j + 1)
         ELSE SetAll_keepFirst(set(this, At(iterable[j], 1), At(iterable[j], 2)),
                               iterable, j + 1)

\* a constructor loop that accepts only arrays of two items
RECURSIVE SetAll_pairsOnly(_, _, _)
SetAll_pairsOnly(this, iterable, j) ==
    IF j > Len(iterable) THEN [this |-> this, thrown |-> "none"]
    ELSE IF ~IsArray(iterable[j]) \/ Len(iterable[j].items) # 2
         THEN [this |-> this, thrown |-> "TypeError"]
    ELSE SetAll_pairsOnly(set(this, At(iterable[j], 1), At(iterable[j], 2)),
                          iterable, j + 1)

\* the constructor's loop over the elements of `iterable` from the j-th on:
\* the map it leaves and the error it throws
RECURSIVE SetAll(_, _, _)
SetAll(this, iterable, j) ==
    IF j > Len(iterable) THEN [this |-> this, thrown |-> "none"]
    ELSE IF ~IsArray(iterable[j]) THEN [this |-> this, thrown |-> "TypeError"]
    ELSE SetAll(set(this, At(iterable[j], 1), At(iterable[j], 2)), iterable, j + 1)

\* new ReverseIterableMap(iterable), iterable a sequence of elements; the
\* call without argument is new ReverseIterableMap(<<>>)
constructor(iterable) ==
    SetAll(NewThis, iterable, 1)

\* -------------------------------------------------------------- iterators
getIteratorValue(kind, node) ==
    CASE kind = "entries" -> Arr(node.key, node.value)
      [] kind = "keys"    -> Prim(node.key)
      [] kind = "values"  -> Prim(node.value)

\* the closure returned by _iterableIterator: its captured variables
_iterableIterator(this, kind, startNode) ==
    [getIteratorValue |-> kind,
     startNode |-> startNode,
     lastNode |-> this._lastNode,
     currentNode |-> IF startNode # undefinedNode THEN startNode ELSE this._firstNode,
     forwards |-> TRUE]

\* reverseIterator() that flips the direction and leaves the cursor
iterReverseIterator_noRewind(i) ==
    [i EXCEPT !.forwards = FALSE]

\* reverseIterator() that goes on backwards from where the cursor is, and
\* from the captured tail once the cursor is null
iterReverseIterator_fromCursor(i) ==
    [i EXCEPT !.currentNode = IF i.currentNode # null THEN i.currentNode ELSE i.lastNode,
              !.forwards = FALSE]

\* iterator.reverseIterator()
\* reverseIterator() that turns the direction round each time it is called
iterReverseIterator_toggle(i) ==
    [i EXCEPT !.currentNode = IF i.startNode # undefinedNode THEN i.startNode
                                                           ELSE i.lastNode,
              !.forwards = ~i.forwards]

iterReverseIterator(i) ==
    [i EXCEPT !.currentNode = IF i.startNode # undefinedNode THEN i.startNode
                                                           ELSE i.lastNode,
              !.forwards = FALSE]

\* [Symbol.iterator]() that rewinds the cursor as reverseIterator() does
iterSymbolIterator_rewind(i) ==
    [i EXCEPT !.currentNode = IF i.startNode # undefinedNode THEN i.startNode
                                                           ELSE i.lastNode]

\* iterator[Symbol.iterator](): `return this`
iterSymbolIterator(i) == i

\* next() that returns at an undefined value before it moves the cursor
next_stopsAtUndefined(h, i) ==
    LET value == IF i.currentNode # null
                 THEN getIteratorValue(i.getIteratorValue, h[i.currentNode])
                 ELSE Prim(undefined)
        cur == IF i.currentNode # null /\ value # Prim(undefined)
               THEN IF i.forwards THEN h[i.currentNode].nextNode
                                  ELSE h[i.currentNode].prevNode
               ELSE i.currentNode
    IN  [it |-> [i EXCEPT !.currentNode = cur],
         result |-> [value |-> value, done |-> (value = Prim(undefined))]]

\* iterator.next() on heap h: the iterator afterwards and the IteratorResult
next(h, i) ==
    LET value == IF i.currentNode # null
                 THEN getIteratorValue(i.getIteratorValue, h[i.currentNode])
                 ELSE Prim(undefined)
        cur == IF i.currentNode # null
               THEN IF i.forwards THEN h[i.currentNode].nextNode
                                  ELSE h[i.currentNode].prevNode
               ELSE i.currentNode
    IN  [it |-> [i EXCEPT !.currentNode = cur],
         result |-> [value |-> value, done |-> (value = Prim(undefined))]]

entries(this) == _iterableIterator(this, "entries", undefinedNode)

keys(this) == _iterableIterator(this, "keys", undefinedNode)

values(this) == _iterableIterator(this, "values", undefinedNode)

\* iteratorFor() that does not hand the start node on
iteratorFor_noStart(this, key) == _iterableIterator(this, "entries", undefinedNode)

iteratorFor(this, key) == _iterableIterator(this, "entries", MapGet(this, key))

\* map.reverseIterator()
reverseIterator(this) == iterReverseIterator(entries(this))

\* The consumer of the iteration protocol (for-of, spread): asks the iterable
\* for its iterator, calls next() until a result has done = true and collects
\* the values before it.  `fuel` bounds the calls; a chain without cycle is
\* exhausted before it runs out.
RECURSIVE Consume(_, _, _)
Consume(h, i, fuel) ==
    LET r == next(h, i)
    IN  IF r.result.done \/ fuel = 0
        THEN [it |-> r.it, values |-> <<>>]
        ELSE LET rest == Consume(h, r.it, fuel - 1)
             IN  [it |-> rest.it, values |-> <<r.result.value>> \o rest.values]

Spread(h, i) == Consume(h, iterSymbolIterator(i), MaxNodes + 1)

\* callbackfn.call(thisArg, value, key, this) for the destructured entry
Invocation(thisArg, entry) ==
    [receiver |-> thisArg, value |-> entry[2], key |-> entry[1], map |-> MapRef]

\* forEach() that calls callback(value, key, thisArg)
forEach_thisArgAsMap(this, thisArg) ==
    LET es == Spread(this.nodes, entries(this)).values
    IN  [j \in 1..Len(es) |->
            [receiver |-> undefined, value |-> es[j][2], key |-> es[j][1], map |-> thisArg]]

\* forEach(callbackfn, thisArg): the invocations of callbackfn, in order
forEach(this, thisArg) ==
    LET es == Spread(this.nodes, entries(this)).values
    IN  [j \in 1..Len(es) |-> Invocation(thisArg, es[j])]

\* forEachReverse(callbackfn, thisArg): the invocations of callbackfn, in order
forEachReverse(this, thisArg) ==
    LET es == Spread(this.nodes, iterReverseIterator(entries(this))).values
    IN  [j \in 1..Len(es) |-> Invocation(thisArg, es[j])]

\* the for-of loop of forEach()/forEachReverse() over iterator i when
\* callbackfn is (value, key, map) => map.delete(key): the map it leaves and
\* the invocations it makes
RECURSIVE ForOfDeleting(_, _, _, _)
ForOfDeleting(this, i, thisArg, fuel) ==
    LET r == next(this.nodes, i)
    IN  IF r.result.done \/ fuel = 0
        THEN [this |-> this, invoked |-> <<>>]
        ELSE LET rest == ForOfDeleting(delete(this, r.result.value[1]).this, r.it,
                                       thisArg, fuel - 1)
             IN  [this |-> rest.this,
                  invoked |-> <<Invocation(thisArg, r.result.value)>> \o rest.invoked]

\* forEach((value, key, map) => map.delete(key), thisArg)
forEachDeleting(this, thisArg) ==
    ForOfDeleting(this, iterSymbolIterator(entries(this)), thisArg, MaxNodes + 1)

\* forEachReverse((value, key, map) => map.delete(key), thisArg)
forEachReverseDeleting(this, thisArg) ==
    ForOfDeleting(this, iterSymbolIterator(iterReverseIterator(entries(this))), thisArg,
                  MaxNodes + 1)

\* ------------------------------------------------------ garbage collection
RECURSIVE Closure(_, _)
Closure(h, S) ==
    LET T == S \cup (({h[n].nextNode : n \in S} \cup {h[n].prevNode : n \in S}) \ {null})
    IN  IF T = S THEN S ELSE Closure(h, T)

Roots(this, i) ==
    ({this._firstNode, this._lastNode, i.startNode, i.lastNode, i.currentNode}
        \cup {this._map[k] : k \in DOMAIN this._map}) \ {null, undefinedNode}

Collect(this, i) ==
    [n \in Closure(this.nodes, Roots(this, i)) |-> this.nodes[n]]

\* the heap when two iterators i and o hold references besides the map
CollectBoth(this, i, o) ==
    [n \in Closure(this.nodes, Roots(this, i) \cup Roots(this, o)) |-> this.nodes[n]]

\* ---------------------------------------------------------------- actions
NoIterator ==
    [getIteratorValue |-> "entries", startNode |-> undefinedNode,
     lastNode |-> null, currentNode |-> null, forwards |-> TRUE]
NoResult == [value |-> Prim(undefined), done |-> TRUE]
NotMade == [factory |-> "none", key |-> undefined]
Called(name, key, value) == [name |-> name, key |-> key, value |-> value]

\* per key, the value the arrays of `iterable` give it last
Latest(iterable) ==
    LET keyAt(j) == At(iterable[j], 1)
        last(k) == CHOOSE j \in 1..Len(iterable) :
                       /\ keyAt(j) = k
                       /\ \A m \in (j + 1)..Len(iterable) : keyAt(m) # k
    IN  [k \in {keyAt(j) : j \in 1..Len(iterable)} |-> At(iterable[last(k)], 2)]

\* the last call returned `val` in the variable `name`; the variables of the
\* other calls hold their defaults
Returns(name, val) ==
    /\ deleted' = IF name = "deleted" THEN val ELSE FALSE
    /\ result' = IF name = "result" THEN val ELSE NoResult
    /\ collected' = IF name = "collected" THEN val ELSE <<>>
    /\ got' = IF name = "got" THEN val ELSE undefined
    /\ had' = IF name = "had" THEN val ELSE FALSE
    /\ invoked' = IF name = "invoked" THEN val ELSE <<>>
    /\ thrown' = IF name = "thrown" THEN val ELSE "none"

\* new ReverseIterableMap()
Init ==
    /\ nodes = EmptyHeap
    /\ _map = EmptyMap
    /\ _firstNode = null
    /\ _lastNode = null
    /\ it = NoIterator
    /\ other = NoIterator
    /\ made = NotMade
    /\ call = Called("constructor", undefined, undefined)
    /\ deleted = FALSE
    /\ result = NoResult
    /\ collected = <<>>
    /\ got = undefined
    /\ had = FALSE
    /\ invoked = <<>>
    /\ thrown = "none"
    /\ source = <<>>
    /\ stored = EmptyMap
    /\ edits = 0
    /\ mirror = NewThis

\* the state after a call left the map as `this`, the iterators as `i` and
\* `o` and the second map as `m`
CommitWith(this, i, o, e, m) ==
    /\ nodes' = CollectBoth(this, i, o)
    /\ _map' = this._map
    /\ _firstNode' = this._firstNode
    /\ _lastNode' = this._lastNode
    /\ it' = i
    /\ other' = o
    /\ edits' = e
    /\ mirror' = [m EXCEPT !.nodes = Collect(m, NoIterator)]

\* the state after a call on the map `this` alone
CommitAll(this, i, o, e) == CommitWith(this, i, o, e, mirror)

\* the state after a call that is not counted as a modification
CommitBoth(this, i, o) == CommitAll(this, i, o, edits)

\* the state after a call that left the second iterator alone
Commit(this, i) == CommitBoth(this, i, other)

\* a free heap slot is left for a new node
CanAllocate == DOMAIN nodes # Refs

DoSet(key, value) ==
    /\ has(This, key) \/ CanAllocate
    /\ Commit(set(This, key, value), it)
    /\ call' = Called("set", key, value)
    /\ Returns("nothing", FALSE)
    /\ stored' = (key :> value) @@ stored
    /\ UNCHANGED <<made, source>>

DoSetFirst(key, value) ==
    /\ has(This, key) \/ CanAllocate
    /\ Commit(setFirst(This, key, value), it)
    /\ call' = Called("setFirst", key, value)
    /\ Returns("nothing", FALSE)
    /\ stored' = (key :> value) @@ stored
    /\ UNCHANGED <<made, source>>

DoDelete(key) ==
    /\ Commit(delete(This, key).this, it)
    /\ call' = Called("delete", key, undefined)
    /\ Returns("deleted", delete(This, key).ret)
    /\ stored' = MapDelete(stored, key)
    /\ UNCHANGED <<made, source>>

DoClear ==
    /\ Commit(clear(This), it)
    /\ call' = Called("clear", undefined, undefined)
    /\ Returns("nothing", FALSE)
    /\ stored' = EmptyMap
    /\ UNCHANGED <<made, source>>

\* map.get(key)
DoGet(key) ==
    /\ Commit(This, it)
    /\ call' = Called("get", key, undefined)
    /\ Returns("got", get(This, key))
    /\ UNCHANGED <<made, source, stored>>

\* map.has(key)
DoHas(key) ==
    /\ Commit(This, it)
    /\ call' = Called("has", key, undefined)
    /\ Returns("had", has(This, key))
    /\ UNCHANGED <<made, source, stored>>

\* a factory call: the new iterator replaces the one held so far
Make(i, factory, key) ==
    /\ Commit(This, i)
    /\ made' = [factory |-> factory, key |-> key]
    /\ call' = Called(factory, key, undefined)
    /\ Returns("nothing", FALSE)
    /\ UNCHANGED <<source, stored>>

DoEntries == Make(entries(This), "entries", undefined)

DoKeys == Make(keys(This), "keys", undefined)

DoValues == Make(values(This), "values", undefined)

DoIteratorFor(key) == Make(iteratorFor(This, key), "iteratorFor", key)

\* map.reverseIterator()
DoMapReverseIterator == Make(reverseIterator(This), "reverseIterator", undefined)

\* it.reverseIterator() that rewinds to the tail the map has now
DoReverseIterator_currentTail ==
    /\ made.factory # "none"
    /\ Commit(This, iterReverseIterator([it EXCEPT !.lastNode = _lastNode]))
    /\ call' = Called("it.reverseIterator", undefined, undefined)
    /\ Returns("nothing", FALSE)
    /\ UNCHANGED <<made, source, stored>>

\* it.reverseIterator()
DoReverseIterator ==
    /\ made.factory # "none"
    /\ Commit(This, iterReverseIterator(it))
    /\ call' = Called("it.reverseIterator", undefined, undefined)
    /\ Returns("nothing", FALSE)
    /\ UNCHANGED <<made, source, stored>>

\* it[Symbol.iterator]()
DoSymbolIterator ==
    /\ made.factory # "none"
    /\ Commit(This, iterSymbolIterator(it))
    /\ call' = Called("it[Symbol.iterator]", undefined, undefined)
    /\ Returns("nothing", FALSE)
    /\ UNCHANGED <<made, source, stored>>

\* it.next() that removes the entry it yields from the map
DoNext_consuming ==
    /\ made.factory # "none"
    /\ Commit(IF it.currentNode # null
              THEN delete(This, nodes[it.currentNode].key).this
              ELSE This,
              next(nodes, it).it)
    /\ call' = Called("it.next", undefined, undefined)
    /\ Returns("result", next(nodes, it).result)
    /\ UNCHANGED <<made, source, stored>>

\* it.next()
DoNext ==
    /\ made.factory # "none"
    /\ Commit(This, next(nodes, it).it)
    /\ call' = Called("it.next", undefined, undefined)
    /\ Returns("result", next(nodes, it).result)
    /\ UNCHANGED <<made, source, stored>>

\* [...it]
DoSpread ==
    /\ made.factory # "none"
    /\ Commit(This, Spread(nodes, it).it)
    /\ call' = Called("spread", undefined, undefined)
    /\ Returns("collected", Spread(nodes, it).values)
    /\ UNCHANGED <<made, source, stored>>

\* map.forEach(callbackfn, thisArg), callbackfn leaving the map alone; the
\* call record holds thisArg as its value
DoForEach(thisArg) ==
    /\ Commit(This, it)
    /\ call' = Called("forEach", undefined, thisArg)
    /\ Returns("invoked", forEach(This, thisArg))
    /\ UNCHANGED <<made, source, stored>>

\* map.forEachReverse(callbackfn, thisArg), callbackfn leaving the map alone
DoForEachReverse(thisArg) ==
    /\ Commit(This, it)
    /\ call' = Called("forEachReverse", undefined, thisArg)
    /\ Returns("invoked", forEachReverse(This, thisArg))
    /\ UNCHANGED <<made, source, stored>>

\* map.forEach(callbackfn, thisArg), callbackfn deleting the key it is given
DoForEachDeleting(thisArg) ==
    /\ Commit(forEachDeleting(This, thisArg).this, it)
    /\ call' = Called("forEach(delete)", undefined, thisArg)
    /\ Returns("invoked", forEachDeleting(This, thisArg).invoked)
    /\ stored' = EmptyMap
    /\ UNCHANGED <<made, source>>

\* map.forEachReverse(callbackfn, thisArg), callbackfn deleting the key it is
\* given
DoForEachReverseDeleting(thisArg) ==
    /\ Commit(forEachReverseDeleting(This, thisArg).this, it)
    /\ call' = Called("forEachReverse(delete)", undefined, thisArg)
    /\ Returns("invoked", forEachReverseDeleting(This, thisArg).invoked)
    /\ stored' = EmptyMap
    /\ UNCHANGED <<made, source>>

\* the constructor's loop over `source` runs: the constructor returns the map
\* or throws, leaving the object as the loop had built it
DoConstruct ==
    LET c == constructor(source)
    IN  /\ call.name = "new"
        /\ Commit(c.this, it)
        /\ call' = Called("constructor", undefined, undefined)
        /\ Returns("thrown", c.thrown)
        /\ stored' = IF c.thrown = "none" THEN Latest(source) ELSE stored
        /\ UNCHANGED <<made, source>>

\* the map's mutators, on a map no iterator has been taken from
Next ==
    \/ \E key \in Keys, value \in Values : DoSet(key, value)
    \/ \E key \in Keys, value \in Values : DoSetFirst(key, value)
    \/ \E key \in Keys : DoDelete(key)
    \/ DoClear

Spec == Init /\ [][Next]_vars

\* the mutators and the queries get() and has()
QueryNext ==
    \/ Next
    \/ \E key \in Keys : DoGet(key)
    \/ \E key \in Keys : DoHas(key)

QuerySpec == Init /\ [][QueryNext]_vars

\* the sequences of [key, value] arrays a map is constructed from
Iterables ==
    UNION {[1..n -> {JsArray(<<k, v>>) : k \in Keys, v \in Values}] : n \in 0..MaxNodes}

\* new ReverseIterableMap(iterable), iterable one of `iterables`
Constructed(iterables) ==
    \E iterable \in iterables :
        LET this == constructor(iterable).this
        IN  /\ nodes = this.nodes
            /\ _map = this._map
            /\ _firstNode = this._firstNode
            /\ _lastNode = this._lastNode
            /\ it = NoIterator
            /\ other = NoIterator
            /\ made = NotMade
            /\ call = Called("constructor", undefined, undefined)
            /\ deleted = FALSE
            /\ result = NoResult
            /\ collected = <<>>
            /\ got = undefined
            /\ had = FALSE
            /\ invoked = <<>>
            /\ thrown = "none"
            /\ source = <<>>
            /\ stored = Latest(iterable)
            /\ edits = 0
            /\ mirror = NewThis

IterInit == Constructed(Iterables)

\* traversal of a constructed map that is not modified meanwhile
IterNext ==
    \/ DoEntries
    \/ DoKeys
    \/ DoValues
    \/ \E key \in Keys : DoIteratorFor(key)
    \/ DoMapReverseIterator
    \/ DoReverseIterator
    \/ DoSymbolIterator
    \/ DoNext
    \/ DoSpread

IterSpec == IterInit /\ [][IterNext]_vars

\* const other = map.entries(): a second iterator besides `it`
DoOtherEntries ==
    /\ CommitBoth(This, it, entries(This))
    /\ call' = Called("other = entries", undefined, undefined)
    /\ Returns("nothing", FALSE)
    /\ UNCHANGED <<made, source, stored>>

\* other.next() of iterators that share one cursor
DoOtherNext_sharedCursor ==
    /\ other # NoIterator
    /\ CommitBoth(This, [it EXCEPT !.currentNode = next(nodes, other).it.currentNode],
                  next(nodes, other).it)
    /\ call' = Called("other.next", undefined, undefined)
    /\ Returns("result", next(nodes, other).result)
    /\ UNCHANGED <<made, source, stored>>

\* other.next()
DoOtherNext ==
    /\ other # NoIterator
    /\ CommitBoth(This, it, next(nodes, other).it)
    /\ call' = Called("other.next", undefined, undefined)
    /\ Returns("result", next(nodes, other).result)
    /\ UNCHANGED <<made, source, stored>>

\* other.reverseIterator()
DoOtherReverseIterator ==
    /\ other # NoIterator
    /\ CommitBoth(This, it, iterReverseIterator(other))
    /\ call' = Called("other.reverseIterator", undefined, undefined)
    /\ Returns("nothing", FALSE)
    /\ UNCHANGED <<made, source, stored>>

\* two iterators over a constructed map that is not modified, their calls
\* interleaved in any order
PairNext ==
    \/ DoKeys
    \/ DoNext
    \/ DoReverseIterator
    \/ DoOtherEntries
    \/ DoOtherNext
    \/ DoOtherReverseIterator

PairSpec == IterInit /\ [][PairNext]_vars

\* map.set(key, value) while the iterator is in use
LiveSet(key, value) ==
    /\ made.factory # "none"
    /\ edits < MaxEdits
    /\ has(This, key) \/ CanAllocate
    /\ CommitAll(set(This, key, value), it, other, edits + 1)
    /\ call' = Called("set", key, value)
    /\ Returns("nothing", FALSE)
    /\ stored' = (key :> value) @@ stored
    /\ UNCHANGED <<made, source>>

\* map.delete(key) while the iterator is in use
LiveDelete(key) ==
    /\ made.factory # "none"
    /\ edits < MaxEdits
    /\ CommitAll(delete(This, key).this, it, other, edits + 1)
    /\ call' = Called("delete", key, undefined)
    /\ Returns("deleted", delete(This, key).ret)
    /\ stored' = MapDelete(stored, key)
    /\ UNCHANGED <<made, source>>

\* one iterator, made by values() or by iteratorFor(key) of a present key,
\* over a constructed map that is modified while the iterator is in use
LiveNext ==
    \/ made.factory = "none" /\ DoValues
    \/ made.factory = "none" /\ \E key \in DOMAIN _map : DoIteratorFor(key)
    \/ \E key \in Keys : LiveSet(key, undefined)
    \/ \E key \in Keys : LiveDelete(key)
    \/ DoReverseIterator
    \/ DoNext

\* the map is constructed from pairs with the value "a"; set() stores the
\* other value, undefined, so that an overwritten entry differs from the old
LiveInit ==
    Constructed(UNION {[1..n -> {JsArray(<<k, "a">>) : k \in Keys}] : n \in 0..MaxNodes})

LiveSpec == LiveInit /\ [][LiveNext]_vars

\* map.set(key, value) and mirror.setFirst(key, value)
MirrorSet(key, value) ==
    /\ has(This, key) \/ CanAllocate
    /\ CommitWith(set(This, key, value), it, other, edits, setFirst(mirror, key, value))
    /\ call' = Called("set", key, value)
    /\ Returns("nothing", FALSE)
    /\ stored' = (key :> value) @@ stored
    /\ UNCHANGED <<made, source>>

\* map.setFirst(key, value) and mirror.set(key, value)
MirrorSetFirst(key, value) ==
    /\ has(This, key) \/ CanAllocate
    /\ CommitWith(setFirst(This, key, value), it, other, edits, set(mirror, key, value))
    /\ call' = Called("setFirst", key, value)
    /\ Returns("nothing", FALSE)
    /\ stored' = (key :> value) @@ stored
    /\ UNCHANGED <<made, source>>

\* map.delete(key) and mirror.delete(key)
MirrorDelete(key) ==
    /\ CommitWith(delete(This, key).this, it, other, edits, delete(mirror, key).this)
    /\ call' = Called("delete", key, undefined)
    /\ Returns("deleted", delete(This, key).ret)
    /\ stored' = MapDelete(stored, key)
    /\ UNCHANGED <<made, source>>

\* two maps, empty at first, given the same set, setFirst and delete calls
\* with set and setFirst exchanged for the second
MirrorNext ==
    \/ \E key \in Keys, value \in Values : MirrorSet(key, value)
    \/ \E key \in Keys, value \in Values : MirrorSetFirst(key, value)
    \/ \E key \in Keys : MirrorDelete(key)

MirrorSpec == Init /\ [][MirrorNext]_vars

\* forEach()/forEachReverse() over a constructed map, with callbacks that do
\* not modify it and callbacks that delete the key they are given
EachNext ==
    \/ \E thisArg \in ThisArgs : DoForEach(thisArg)
    \/ \E thisArg \in ThisArgs : DoForEachReverse(thisArg)
    \/ \E thisArg \in ThisArgs : DoForEachDeleting(thisArg)
    \/ \E thisArg \in ThisArgs : DoForEachReverseDeleting(thisArg)

EachSpec == IterInit /\ [][EachNext]_vars

\* the elements a constructor argument is made of: arrays of zero to three
\* items, and values that are no arrays
Elements ==
    {JsArray(<<>>)}
        \cup {JsArray(<<k>>) : k \in Keys}
        \cup {JsArray(<<k, v>>) : k \in Keys, v \in Values}
        \cup {JsArray(<<k, "a", "b">>) : k \in Keys}
        \cup {JsPrim(x) : x \in {undefined, "k1"}}

Sources == UNION {[1..n -> Elements] : n \in 0..MaxNodes}

\* new ReverseIterableMap(iterable) is being evaluated: the constructor has
\* assigned the fields and not yet entered its loop over iterable
CtorInit ==
    \E iterable \in Sources :
        /\ nodes = EmptyHeap
        /\ _map = EmptyMap
        /\ _firstNode = null
        /\ _lastNode = null
        /\ it = NoIterator
        /\ other = NoIterator
        /\ made = NotMade
        /\ call = Called("new", undefined, undefined)
        /\ deleted = FALSE
        /\ result = NoResult
        /\ collected = <<>>
        /\ got = undefined
        /\ had = FALSE
        /\ invoked = <<>>
        /\ thrown = "none"
        /\ source = iterable
        /\ stored = EmptyMap
        /\ edits = 0
        /\ mirror = NewThis

\* construction of a map from an iterable
CtorNext == DoConstruct

CtorSpec == CtorInit /\ [][CtorNext]_vars

\* ------------------------------------------------- vocabulary of the claims
ThisNext ==
    [nodes |-> nodes', _map |-> _map', _firstNode |-> _firstNode', _lastNode |-> _lastNode']

Reverse(s) == [j \in 1..Len(s) |-> s[Len(s) + 1 - j]]

\* the references met from node n by following `link` until null; a walk
\* that does not end within MaxNodes + 1 nodes is cut there
RECURSIVE Walk(_, _, _, _)
Walk(h, n, link, fuel) ==
    IF n = null \/ fuel = 0 THEN <<>>
    ELSE <<n>> \o Walk(h, IF link = "nextNode" THEN h[n].nextNode ELSE h[n].prevNode,
                       link, fuel - 1)

Forward(this) == Walk(this.nodes, this._firstNode, "nextNode", MaxNodes + 1)
Backward(this) == Walk(this.nodes, this._lastNode, "prevNode", MaxNodes + 1)
Indexed(this) == {this._map[k] : k \in DOMAIN this._map}

\* the [key, value] pairs along the chain, head first
Pairs(this) ==
    [j \in 1..Len(Forward(this)) |->
        <<this.nodes[Forward(this)[j]].key, this.nodes[Forward(this)[j]].value>>]

WellFormed(this) ==
    LET f == Forward(this)
        h == this.nodes
    IN  /\ Len(f) = Cardinality(Indexed(this))
        /\ {f[j] : j \in 1..Len(f)} = Indexed(this)
        /\ Backward(this) = Reverse(f)
        /\ \A k \in DOMAIN this._map : h[this._map[k]].key = k
        /\ IF f = <<>>
           THEN this._firstNode = null /\ this._lastNode = null
           ELSE this._firstNode = f[1] /\ this._lastNode = f[Len(f)]
        /\ \A n \in Indexed(this) :
              /\ h[n].prevNode = null <=> n = this._firstNode
              /\ h[n].nextNode = null <=> n = this._lastNode

\* ------------------------------------------------------------------ claims
\* C1: after any sequence of set, setFirst, delete and clear calls (re-setting
\* a present key included) the indexed nodes form one acyclic doubly-linked
\* chain: next from the head visits every indexed node once and ends at the
\* tail, prev from the tail visits them in the opposite order, only the head
\* has prev = null and only the tail has next = null.
C1_OneChain == WellFormed(This)

\* a present key that is not the tail has just been set again in a full map
C1_Witness ==
    /\ call.name = "set"
    /\ size(This) = 3
    /\ has(This, call.key)
    /\ _map[call.key] = _firstNode

\* C2: set(k, v) and setFirst(k, v) on a present key k change only the value
\* stored for k: index, head, tail, every link, the key order and size stay.
C2_UpdateInPlace ==
    [][(call'.name \in {"set", "setFirst"} /\ has(This, call'.key)) =>
          /\ nodes' = [nodes EXCEPT ![_map[call'.key]].value = call'.value]
          /\ _map' = _map
          /\ _firstNode' = _firstNode
          /\ _lastNode' = _lastNode
          /\ Forward(ThisNext) = Forward(This)
          /\ size(ThisNext) = size(This)
          /\ get(ThisNext, call'.key) = call'.value]_vars

\* setFirst has just been called with the key of the tail of a 3-entry map
C2_Witness ==
    /\ call.name = "setFirst"
    /\ size(This) = 3
    /\ has(This, call.key)
    /\ _map[call.key] = _lastNode
    /\ get(This, call.key) = call.value

\* C3: set(k, v) with k absent appends k right after the previous tail,
\* setFirst(k, v) with k absent puts k right before the previous head; the
\* other entries keep their order and values; on an empty map the new node is
\* head and tail with prev = next = null.
C3_InsertAtEnds ==
    [][(call'.name \in {"set", "setFirst"} /\ ~has(This, call'.key)) =>
          LET node == _map'[call'.key]
              pair == <<call'.key, call'.value>>
          IN  /\ has(ThisNext, call'.key)
              /\ call'.name = "set" =>
                    /\ Pairs(ThisNext) = Append(Pairs(This), pair)
                    /\ _lastNode' = node
                    /\ nodes'[node].prevNode = _lastNode
                    /\ nodes'[node].nextNode = null
                    /\ _lastNode # null => nodes'[_lastNode].nextNode = node
              /\ call'.name = "setFirst" =>
                    /\ Pairs(ThisNext) = <<pair>> \o Pairs(This)
                    /\ _firstNode' = node
                    /\ nodes'[node].nextNode = _firstNode
                    /\ nodes'[node].prevNode = null
                    /\ _firstNode # null => nodes'[_firstNode].prevNode = node
              /\ size(This) = 0 =>
                    /\ _firstNode' = node /\ _lastNode' = node
                    /\ nodes'[node].prevNode = null /\ nodes'[node].nextNode = null]_vars

\* setFirst has just put a new key before the head of a 2-entry map
C3_Witness ==
    /\ call.name = "setFirst"
    /\ size(This) = 3
    /\ _map[call.key] = _firstNode
    /\ nodes[_firstNode].nextNode # null
    /\ Pairs(This)[1] = <<call.key, call.value>>

\* the pairs of s whose key is not `key`
Without(s, key) == SelectSeq(s, LAMBDA e : e[1] # key)

\* new ReverseIterableMap() followed by set(p[0], p[1]) for the arrays p of
\* `iterable` from the j-th on, in order
RECURSIVE SetEach(_, _, _)
SetEach(this, iterable, j) ==
    IF j > Len(iterable) THEN this
    ELSE SetEach(set(this, At(iterable[j], 1), At(iterable[j], 2)), iterable, j + 1)

\* the <<key, value>> pairs of the arrays of `iterable`: each key once, at the
\* place of its first occurrence, with the value of its last occurrence
FirstPlaceLastValue(iterable) ==
    LET keyAt(j) == At(iterable[j], 1)
        firsts == {j \in 1..Len(iterable) : \A m \in 1..(j - 1) : keyAt(m) # keyAt(j)}
        nth(n) == CHOOSE j \in firsts : Cardinality({m \in firsts : m < j}) = n - 1
    IN  [n \in 1..Cardinality(firsts) |-> <<keyAt(nth(n)), Latest(iterable)[keyAt(nth(n))]>>]

\* the iterators the factories of `this` create, as created and reversed
Iterators(this) ==
    LET created == {entries(this), keys(this), values(this)}
                       \cup {iteratorFor(this, k) : k \in Keys}
    IN  created \cup {iterReverseIterator(i) : i \in created}

\* the number of next() calls on iterator i that move its cursor until the
\* cursor is null; counting stops after `fuel` such calls
RECURSIVE Advances(_, _, _)
Advances(h, i, fuel) ==
    IF i.currentNode = null THEN 0
    ELSE IF fuel = 0 THEN 1
    ELSE 1 + Advances(h, next(h, i).it, fuel - 1)

\* A built-in Map as the sequence of its <<key, value>> entries in insertion
\* order.  Map.prototype.set keeps the place of a present key.
BuiltinHas(m, key) == \E j \in 1..Len(m) : m[j][1] = key
BuiltinGet(m, key) ==
    IF BuiltinHas(m, key) THEN m[CHOOSE j \in 1..Len(m) : m[j][1] = key][2] ELSE undefined
BuiltinSet(m, key, value) ==
    IF BuiltinHas(m, key)
    THEN [j \in 1..Len(m) |-> IF m[j][1] = key THEN <<key, value>> ELSE m[j]]
    ELSE Append(m, <<key, value>>)
BuiltinDelete(m, key) == Without(m, key)

\* the values iterator i has not yet yielded: the projections of the nodes
\* from its cursor on, in its direction
Remaining(h, i) ==
    LET rest == Walk(h, i.currentNode, IF i.forwards THEN "nextNode" ELSE "prevNode",
                     MaxNodes + 1)
    IN  [j \in 1..Len(rest) |-> getIteratorValue(i.getIteratorValue, h[rest[j]])]

\* the nodes a forward iterator with cursor n has yet to visit
Ahead(h, n) == Walk(h, n, "nextNode", MaxNodes + 1)

\* set(key, value) has appended a new key while the forward iterator `it` had
\* a cursor that was not null
AppendedUnderCursor ==
    /\ call'.name = "set"
    /\ ~has(This, call'.key)
    /\ made.factory # "none"
    /\ it.forwards
    /\ it.currentNode # null

\* The parts of C29 that do not depend on where the cursor is: set() and
\* setFirst() of a present key assign the value of its node and leave the
\* links alone, next() projects the node as it is at the call, and once the
\* cursor is null it stays null under set, delete and next, so that the node
\* of a key appended then is not reached, forwards or after a flip.
LiveView ==
    /\ (call'.name = "set" /\ has(This, call'.key) /\ made.factory # "none") =>
          /\ nodes'[_map[call'.key]] = [nodes[_map[call'.key]] EXCEPT !.value = call'.value]
          /\ Ahead(nodes', it'.currentNode) = Ahead(nodes, it.currentNode)
          /\ setFirst(This, call'.key, call'.value) = set(This, call'.key, call'.value)
    /\ (call'.name = "it.next" /\ it.currentNode # null) =>
          result'.value = getIteratorValue(it.getIteratorValue, nodes[it.currentNode])
    /\ (/\ call'.name \in {"set", "delete", "it.next"}
        /\ made.factory # "none"
        /\ it.currentNode = null) =>
          /\ it'.currentNode = null
          /\ next(nodes', it').result = NoResult
          /\ (call'.name = "set" /\ ~has(This, call'.key)) =>
                \A j \in 1..Len(Remaining(nodes', iterReverseIterator(it'))) :
                    _lastNode' # Walk(nodes', iterReverseIterator(it').currentNode,
                                      "prevNode", MaxNodes + 1)[j]

\* the value recorded for `key` in the key -> value function m, undefined
\* when there is none
Lookup(m, key) == IF key \in DOMAIN m THEN m[key] ELSE undefined

\* C4: delete(k) on a present key k returns true, removes exactly the entry
\* of k, decrements size by 1 and leaves the keys, values and relative order
\* of the other entries unchanged, wherever the node of k is.
C4_DeletePresent ==
    [][(call'.name = "delete" /\ has(This, call'.key)) =>
          /\ deleted' = TRUE
          /\ ~has(ThisNext, call'.key)
          /\ size(ThisNext) = size(This) - 1
          /\ Pairs(ThisNext) = Without(Pairs(This), call'.key)
          /\ Len(Pairs(ThisNext)) = Len(Pairs(This)) - 1
          /\ DOMAIN _map' = DOMAIN _map \ {call'.key}]_vars

\* delete has just removed one of three entries
C4_Witness ==
    /\ call.name = "delete"
    /\ deleted
    /\ size(This) = 2
    /\ ~has(This, call.key)

\* C5: delete(k) on an absent key k returns false and leaves index, head,
\* tail, every node and size unchanged.
C5_DeleteAbsent ==
    [][(call'.name = "delete" /\ ~has(This, call'.key)) =>
          /\ deleted' = FALSE
          /\ nodes' = nodes
          /\ _map' = _map
          /\ _firstNode' = _firstNode
          /\ _lastNode' = _lastNode
          /\ size(ThisNext) = size(This)]_vars

\* delete has just been called with a key a non-empty map does not hold
C5_Witness ==
    /\ call.name = "delete"
    /\ ~deleted
    /\ ~has(This, call.key)
    /\ size(This) >= 1

\* C6: size equals the number of distinct keys present, which equals the
\* number of nodes reachable from the head by following next.
C6_SizeIsChainLength ==
    /\ size(This) = Cardinality({k \in Keys : has(This, k)})
    /\ size(This) = Len(Forward(This))
    /\ Cardinality({Pairs(This)[j][1] : j \in 1..Len(Pairs(This))}) = size(This)

\* clear has just emptied the map
C6_Witness ==
    /\ call.name = "clear"
    /\ size(This) = 0
    /\ Len(Forward(This)) = 0

\* C7: on a map that is not modified during the traversal, the sequence
\* collected from map.reverseIterator() is the reverse of the sequence
\* collected from map.entries().
C7_ReverseIsReversedForward ==
    Spread(nodes, reverseIterator(This)).values =
        Reverse(Spread(nodes, entries(This)).values)

\* the spread of map.reverseIterator() has just collected three entries
C7_Witness ==
    /\ call.name = "spread"
    /\ made.factory = "reverseIterator"
    /\ Len(collected) = 3
    /\ collected = Reverse(Spread(nodes, entries(This)).values)
    /\ collected[1] # collected[3]

\* C8: for a present key k, iteratorFor(k) yields the suffix of the forward
\* entry sequence that starts at k, and iteratorFor(k).reverseIterator()
\* yields the reverse of the prefix that ends at k.
C8_IteratorForSuffixPrefix ==
    \A k \in DOMAIN _map :
        LET fwd == Spread(nodes, entries(This)).values
        IN  \E j \in 1..Len(fwd) :
               /\ fwd[j][1] = k
               /\ Spread(nodes, iteratorFor(This, k)).values = SubSeq(fwd, j, Len(fwd))
               /\ Spread(nodes, iterReverseIterator(iteratorFor(This, k))).values =
                     Reverse(SubSeq(fwd, 1, j))

\* the spread of iteratorFor(k).reverseIterator(), k the middle key of three,
\* has just collected the entry of k and the one before it
C8_Witness ==
    /\ call.name = "spread"
    /\ made.factory = "iteratorFor"
    /\ has(This, made.key)
    /\ size(This) = 3
    /\ nodes[_map[made.key]].prevNode # null
    /\ nodes[_map[made.key]].nextNode # null
    /\ ~it.forwards
    /\ Len(collected) = 2
    /\ collected[1][1] = made.key
    /\ collected = Reverse(SubSeq(Spread(nodes, entries(This)).values, 1, 2))

\* C9: for a key k that is not present, the first next() on iteratorFor(k),
\* and the first next() after iteratorFor(k).reverseIterator(), return
\* done = true with no value.
C9_MissingKeyExhausted ==
    [][(/\ call'.name = "it.next"
        /\ call.name \in {"iteratorFor", "it.reverseIterator"}
        /\ made.factory = "iteratorFor"
        /\ ~has(This, made.key)) =>
            (result'.done /\ result'.value = Prim(undefined))]_vars

\* C10: a next() call made while the cursor is a node returns done = false
\* with the projection of that node, and done = true only when the cursor is
\* null, also when the projected key or value is undefined.
C10_DoneOnlyAtNull ==
    [][call'.name = "it.next" =>
          /\ it.currentNode # null =>
                /\ result'.done = FALSE
                /\ result'.value = getIteratorValue(it.getIteratorValue, nodes[it.currentNode])
          /\ result'.done => it.currentNode = null]_vars

\* C11: on an iterator over an unmodified map whose reverseIterator() is not
\* called again, a next() call that follows a next() call which returned
\* done = true returns done = true with value undefined as well.
C11_DoneStaysDone ==
    [][(/\ call.name = "it.next"
        /\ result.done
        /\ call'.name = "it.next") =>
            (result'.done /\ result'.value = Prim(undefined))]_vars

C13_ViewsHaveSizeElements ==
    LET ks == Spread(nodes, keys(This)).values
        vs == Spread(nodes, values(This)).values
        es == Spread(nodes, entries(This)).values
    IN  /\ Len(ks) = size(This)
        /\ Len(vs) = size(This)
        /\ Len(es) = size(This)
        /\ \A j \in 1..size(This) : es[j] = Arr(ks[j][1], vs[j][1])

\* C14: get(k) does not throw; it returns the value most recently stored for
\* k when k is present and undefined when k is absent, and it leaves the map
\* unchanged.
C14_GetReturnsStored ==
    [][call'.name = "get" =>
          /\ thrown' = "none"
          /\ got' = Lookup(stored, call'.key)
          /\ call'.key \notin DOMAIN stored => got' = undefined
          /\ ThisNext = This]_vars

\* get(k) has returned "a" for the middle key of three
C14_Witness ==
    /\ call.name = "get"
    /\ has(This, call.key)
    /\ size(This) = 3
    /\ nodes[_map[call.key]].prevNode # null
    /\ nodes[_map[call.key]].nextNode # null
    /\ got = "a"

\* C15: has(k) is true exactly when k was inserted and not removed since,
\* whatever value is stored: after set(k, undefined) has(k) is true while
\* get(k) is undefined, and a later set of k updates that entry in place.
C15_HasIgnoresValue ==
    [][/\ \A k \in Keys : has(ThisNext, k) <=> k \in DOMAIN stored'
       /\ call'.name = "has" =>
             /\ had' = (call'.key \in DOMAIN stored)
             /\ ThisNext = This
       /\ (call'.name \in {"set", "setFirst"} /\ call'.value = undefined) =>
             /\ has(ThisNext, call'.key)
             /\ get(ThisNext, call'.key) = undefined
       /\ (/\ call'.name \in {"set", "setFirst"}
           /\ has(This, call'.key)
           /\ get(This, call'.key) = undefined) =>
             /\ size(ThisNext) = size(This)
             /\ Forward(ThisNext) = Forward(This)
             /\ get(ThisNext, call'.key) = call'.value]_vars

\* has(k) has returned true for a key whose stored value is undefined, in a
\* map of two entries
C15_Witness ==
    /\ call.name = "has"
    /\ had
    /\ size(This) = 2
    /\ get(This, call.key) = undefined

\* C16: forEach(callback, thisArg) invokes callback once per entry, in
\* forward order, with (value, key, map), the map itself as third argument
\* and thisArg as receiver; forEachReverse does so in reverse order.  Every
\* entry is visited, whatever its key and value.
C16_ForEachVisitsAll ==
    [][call'.name \in {"forEach", "forEachReverse"} =>
          LET order == IF call'.name = "forEach" THEN Pairs(This)
                                                 ELSE Reverse(Pairs(This))
          IN  /\ Len(invoked') = size(This)
              /\ \A j \in 1..Len(invoked') :
                     /\ invoked'[j].receiver = call'.value
                     /\ invoked'[j].value = order[j][2]
                     /\ invoked'[j].key = order[j][1]
                     /\ invoked'[j].map = MapRef
              /\ ThisNext = This]_vars

\* forEachReverse(callback, thisArg) has invoked the callback three times, the
\* first time for the tail; one of the entries has key and value undefined
C16_Witness ==
    /\ call.name = "forEachReverse"
    /\ call.value = "thisArg"
    /\ Len(invoked) = 3
    /\ invoked[1].key = nodes[_lastNode].key
    /\ invoked[1].receiver = "thisArg"
    /\ \E j \in 1..3 : invoked[j].key = undefined /\ invoked[j].value = undefined

\* C17: construction throws a TypeError exactly when some element of the
\* iterable is not an array.  Every array is accepted whatever its length, its
\* first two items (undefined where missing) being stored as key and value;
\* when the first element is no array nothing has been stored.
C17_ThrowsIffNonArray ==
    [][(call.name = "new" /\ call'.name = "constructor") =>
          /\ thrown' \in {"none", "TypeError"}
          /\ thrown' = "TypeError" <=> \E j \in 1..Len(source) : ~IsArray(source[j])
          /\ thrown' = "none" =>
                \A j \in 1..Len(source) :
                    /\ has(ThisNext, At(source[j], 1))
                    /\ (\A m \in (j + 1)..Len(source) : At(source[m], 1) # At(source[j], 1))
                          => get(ThisNext, At(source[j], 1)) = At(source[j], 2)
          /\ (Len(source) > 0 /\ ~IsArray(source[1])) => size(ThisNext) = 0]_vars

\* a map was constructed from an empty array, an array of one item and an
\* array of three items: it holds the key undefined and the keys of the other
\* two arrays
C17_Witness ==
    /\ call.name = "constructor"
    /\ thrown = "none"
    /\ Len(source) = 3
    /\ Len(source[1].items) = 0
    /\ Len(source[2].items) = 1
    /\ Len(source[3].items) = 3
    /\ size(This) = 3
    /\ get(This, source[3].items[1]) = source[3].items[2]

\* C18: constructing a map from the arrays p1..pn leaves the state that
\* new ReverseIterableMap() followed by set(pi[0], pi[1]) in order leaves; a
\* key that occurs more than once keeps the place of its first occurrence and
\* has the value of its last.
C18_ConstructorIsSetInOrder ==
    [][(/\ call.name = "new"
        /\ call'.name = "constructor"
        /\ \A j \in 1..Len(source) : IsArray(source[j])) =>
            /\ thrown' = "none"
            /\ ThisNext = SetEach([nodes |-> EmptyHeap, _map |-> EmptyMap,
                                   _firstNode |-> null, _lastNode |-> null], source, 1)
            /\ WellFormed(ThisNext)
            /\ Pairs(ThisNext) = FirstPlaceLastValue(source)]_vars

\* a map was constructed from three pairs, the first and the third with the
\* same key and different values: the key is the head and has the third value
C18_Witness ==
    /\ call.name = "constructor"
    /\ thrown = "none"
    /\ Len(source) = 3
    /\ \A j \in 1..3 : Len(source[j].items) = 2
    /\ source[1].items[1] = source[3].items[1]
    /\ source[1].items[1] # source[2].items[1]
    /\ source[1].items[2] # source[3].items[2]
    /\ size(This) = 2
    /\ nodes[_firstNode].key = source[3].items[1]
    /\ nodes[_firstNode].value = source[3].items[2]

\* C19: clear() leaves the map empty: size 0, head and tail null, has(k)
\* false for every k, and every iterator created afterwards, forward or
\* reversed, is exhausted at its first next(); the map is in the state of a
\* newly created empty map.
C19_ClearEmpties ==
    [][call'.name = "clear" =>
          /\ size(ThisNext) = 0
          /\ _firstNode' = null
          /\ _lastNode' = null
          /\ \A k \in Keys : ~has(ThisNext, k) /\ get(ThisNext, k) = undefined
          /\ \A i \in {entries(ThisNext), keys(ThisNext), values(ThisNext)}
                      \cup {iteratorFor(ThisNext, k) : k \in Keys} :
                /\ next(nodes', i).result = NoResult
                /\ next(nodes', iterReverseIterator(i)).result = NoResult
          /\ next(nodes', reverseIterator(ThisNext)).result = NoResult
          /\ ThisNext = [nodes |-> EmptyHeap, _map |-> EmptyMap,
                         _firstNode |-> null, _lastNode |-> null]]_vars

\* clear() has returned: no node is left on the heap and the spread of a
\* reversed iterator is empty
C19_Witness ==
    /\ call.name = "clear"
    /\ DOMAIN nodes = {}
    /\ _firstNode = null
    /\ _lastNode = null
    /\ Spread(nodes, reverseIterator(This)).values = <<>>

\* C20: reverseIterator() on an iterator returns that same iterator, sets its
\* direction to backward and rewinds its cursor to the start node the
\* iterator was created with (iteratorFor of a present key) or else to the
\* tail, wherever earlier next() calls had left the cursor; the next() that
\* follows reads that node and moves to its predecessor.
C20_FlipRewinds ==
    [][call'.name = "it.reverseIterator" =>
          LET start == IF made.factory = "iteratorFor" /\ has(This, made.key)
                       THEN _map[made.key]
                       ELSE _lastNode
              after == next(nodes', it')
          IN  /\ it' = [it EXCEPT !.currentNode = start, !.forwards = FALSE]
              /\ made' = made
              /\ ThisNext = This
              /\ start # null =>
                    /\ after.result.value =
                          getIteratorValue(it.getIteratorValue, nodes[start])
                    /\ after.it.currentNode = nodes[start].prevNode]_vars

\* reverseIterator() was called on an iteratorFor(k) iterator, k the middle
\* key of three: the cursor is the node of k and the direction is backward
C20_Witness ==
    /\ call.name = "it.reverseIterator"
    /\ made.factory = "iteratorFor"
    /\ has(This, made.key)
    /\ size(This) = 3
    /\ nodes[_map[made.key]].prevNode # null
    /\ nodes[_map[made.key]].nextNode # null
    /\ it.currentNode = _map[made.key]
    /\ ~it.forwards

\* C21: with two iterators over the same unmodified map, in any interleaving
\* of their next() and reverseIterator() calls, a call on one iterator leaves
\* the other iterator and the map as they are, and what it returns and does
\* to its own iterator is what it returns and does with no other iterator.
C21_IteratorsIndependent ==
    [][/\ call'.name \in {"it.next", "it.reverseIterator"} =>
             /\ other' = other
             /\ ThisNext = This
       /\ call'.name = "it.next" =>
             /\ it' = next(nodes, it).it
             /\ result' = next(nodes, it).result
       /\ call'.name = "it.reverseIterator" => it' = iterReverseIterator(it)
       /\ call'.name \in {"other.next", "other.reverseIterator"} =>
             /\ it' = it
             /\ ThisNext = This
       /\ call'.name = "other.next" =>
             /\ other' = next(nodes, other).it
             /\ result' = next(nodes, other).result
       /\ call'.name = "other.reverseIterator" => other' = iterReverseIterator(other)]_vars

\* other.next() has returned an entry of a map of three entries while `it`,
\* reversed, stands in the middle of its own traversal at a different node
C21_Witness ==
    /\ call.name = "other.next"
    /\ ~result.done
    /\ size(This) = 3
    /\ made.factory = "keys"
    /\ ~it.forwards
    /\ other.forwards
    /\ it.currentNode \notin {null, _lastNode}
    /\ other.currentNode \notin {null, _firstNode}
    /\ it.currentNode # other.currentNode

\* C22: the delete() that removes the last key of a map, after deletes in any
\* order, leaves size 0 and head and tail null, so that every iterator
\* created afterwards is exhausted at once; entries then inserted with set()
\* are iterated in insertion order forwards and in reverse insertion order
\* backwards.
C22_DeleteAllEmpties ==
    [][(call'.name = "delete" /\ deleted' /\ size(This) = 1) =>
          /\ size(ThisNext) = 0
          /\ _firstNode' = null
          /\ _lastNode' = null
          /\ \A i \in Iterators(ThisNext) : next(nodes', i).result = NoResult
          /\ \A k1, k2 \in Keys, v1, v2 \in Values :
                k1 # k2 =>
                    LET m == set(set(ThisNext, k1, v1), k2, v2)
                    IN  /\ Spread(m.nodes, entries(m)).values = <<Arr(k1, v1), Arr(k2, v2)>>
                        /\ Spread(m.nodes, reverseIterator(m)).values =
                              <<Arr(k2, v2), Arr(k1, v1)>>]_vars

\* delete() has removed the only key left and returned true
C22_Witness ==
    /\ call.name = "delete"
    /\ deleted
    /\ size(This) = 0
    /\ call.key \notin DOMAIN stored
    /\ \A i \in Iterators(This) : Spread(nodes, i).values = <<>>

\* C23: on every map reachable by set/setFirst/delete/clear, repeated next()
\* calls on any iterator, forward or reversed, from entries/keys/values/
\* iteratorFor, reach a null cursor after at most size calls that move the
\* cursor.
C23_CursorReachesNull ==
    \A i \in Iterators(This) : Advances(nodes, i, MaxNodes + 1) <= size(This)

\* setFirst() has stored undefined for a key of a map of three entries; the
\* reversed values() iterator moves its cursor three times to reach null
C23_Witness ==
    /\ call.name = "setFirst"
    /\ call.value = undefined
    /\ size(This) = 3
    /\ Advances(nodes, iterReverseIterator(values(This)), 4) = 3

\* C24: under set, delete and clear the map behaves like a built-in Map given
\* the same calls: if the entries of the two are equal before a call, then
\* after it size, has(k) and get(k) for every k, the boolean returned by
\* delete and the sequence produced by entries() are equal as well.
C24_BehavesLikeMap ==
    [][call'.name \in {"set", "delete", "clear"} =>
          \A before \in {Spread(nodes, entries(This)).values} :
              \A after \in {CASE call'.name = "set" -> BuiltinSet(before, call'.key, call'.value)
                              [] call'.name = "delete" -> BuiltinDelete(before, call'.key)
                              [] call'.name = "clear" -> <<>>} :
                  /\ Spread(nodes', entries(ThisNext)).values = after
                  /\ size(ThisNext) = Len(after)
                  /\ \A k \in Keys :
                         /\ has(ThisNext, k) <=> BuiltinHas(after, k)
                         /\ get(ThisNext, k) = BuiltinGet(after, k)
                  /\ call'.name = "delete" => deleted' = BuiltinHas(before, call'.key)]_vars

\* set() has overwritten the value of the first of three keys with a
\* different value: the key is still the first one entries() produces
C24_Witness ==
    /\ call.name = "set"
    /\ size(This) = 3
    /\ Spread(nodes, entries(This)).values[1] = Arr(call.key, call.value)
    /\ call.value = undefined
    /\ \E j \in 2..3 : Pairs(This)[j][2] = "a"

\* C25: [Symbol.iterator]() on an iterator returns that iterator with its
\* cursor and direction untouched, so a for-of/spread of an iterator yields
\* exactly the elements it had not yet yielded, and a second spread of the
\* same iterator yields the empty sequence.
C25_OwnSequenceSource ==
    [][/\ call'.name = "it[Symbol.iterator]" => it' = it
       /\ call'.name = "spread" =>
             /\ collected' = Remaining(nodes, it)
             /\ call.name = "spread" => collected' = <<>>]_vars

\* C26: in every reachable state head = null iff tail = null iff size = 0;
\* when size = 1 head and tail are the same node; when size >= 1 the head is
\* the node entries() yields first and the tail is the node
\* reverseIterator() yields first.
C26_HeadTailSize ==
    /\ (_firstNode = null) <=> (_lastNode = null)
    /\ (_firstNode = null) <=> (size(This) = 0)
    /\ size(This) = 1 => _firstNode = _lastNode
    /\ size(This) >= 1 =>
          /\ entries(This).currentNode = _firstNode
          /\ next(nodes, entries(This)).result =
                [value |-> Arr(nodes[_firstNode].key, nodes[_firstNode].value),
                 done |-> FALSE]
          /\ reverseIterator(This).currentNode = _lastNode
          /\ next(nodes, reverseIterator(This)).result =
                [value |-> Arr(nodes[_lastNode].key, nodes[_lastNode].value),
                 done |-> FALSE]

\* delete() has removed one of two entries: the node left is head and tail
C26_Witness ==
    /\ call.name = "delete"
    /\ deleted
    /\ size(This) = 1
    /\ _firstNode = _lastNode
    /\ _firstNode # null
    /\ nodes[_firstNode].prevNode = null
    /\ nodes[_firstNode].nextNode = null

\* C27: creating an iterator (entries, keys, values, iteratorFor,
\* reverseIterator, [Symbol.iterator]) and calling next() or
\* reverseIterator() on it, or consuming it, never changes the map: index,
\* head, tail, every node's key, value, prevNode and nextNode, and size.
C27_IteratorsOnlyRead ==
    [][call'.name \in {"entries", "keys", "values", "iteratorFor", "reverseIterator",
                       "it[Symbol.iterator]", "it.next", "it.reverseIterator", "spread"} =>
          /\ _map' = _map
          /\ _firstNode' = _firstNode
          /\ _lastNode' = _lastNode
          /\ nodes' = nodes
          /\ size(ThisNext) = size(This)]_vars

\* a reversed values() iterator of a map of three entries has been walked to
\* its end by next() calls
C27_Witness ==
    /\ call.name = "it.next"
    /\ made.factory = "values"
    /\ ~it.forwards
    /\ size(This) = 3
    /\ it.currentNode = null
    /\ Len(Forward(This)) = 3

\* C28: an iterator created by entries(), keys() or values() captures the
\* map's tail at its creation and no later call changes what it captured;
\* reverseIterator() starts the backward traversal at that node, also when
\* keys were appended or the tail was deleted since, and when the map was
\* empty at the creation the iterator is exhausted after reverseIterator()
\* whatever was added since.
C28_FlipStartsAtCapturedTail ==
    [][/\ call'.name \in {"entries", "keys", "values"} => it'.lastNode = _lastNode
       /\ (made.factory \in {"entries", "keys", "values"} /\ made' = made) =>
             it'.lastNode = it.lastNode
       /\ (call'.name = "it.reverseIterator"
             /\ made.factory \in {"entries", "keys", "values"}) =>
             /\ it'.currentNode = it.lastNode
             /\ ~it'.forwards
             /\ it.lastNode = null => next(nodes', it').result = NoResult
             /\ it.lastNode # null =>
                   next(nodes', it').result.value =
                       getIteratorValue(it.getIteratorValue, nodes[it.lastNode])]_vars

\* reverseIterator() was called on a values() iterator after a key had been
\* appended: the cursor is the node before the map's tail
C28_Witness ==
    /\ call.name = "it.reverseIterator"
    /\ made.factory = "values"
    /\ edits >= 1
    /\ it.currentNode # null
    /\ _lastNode # null
    /\ it.currentNode # _lastNode
    /\ nodes[it.currentNode].nextNode = _lastNode

\* C29 as stated: a key appended with set() while a forward iterator has a
\* cursor that is not null is among the entries that iterator has yet to
\* yield; a value overwritten before the cursor reaches its node is the value
\* yielded; once the cursor is null, appended entries are never yielded.
C29_LiveViews ==
    [][/\ AppendedUnderCursor => _lastNode' \in {Ahead(nodes', it'.currentNode)[j] :
                                      j \in 1..Len(Ahead(nodes', it'.currentNode))}
       /\ LiveView]_vars

\* C29 amended: the appended key is among the entries the iterator has yet to
\* yield when the node under its cursor is still an entry of the map; the
\* other parts as stated.
C29_LiveViewsOfLinkedCursor ==
    [][/\ (AppendedUnderCursor /\ it.currentNode \in Indexed(This)) =>
             _lastNode' \in {Ahead(nodes', it'.currentNode)[j] :
                                 j \in 1..Len(Ahead(nodes', it'.currentNode))}
       /\ LiveView]_vars

\* set() has appended a key to a map of two entries while the cursor of a
\* forward values() iterator was the tail: the new node follows the cursor
C29_Witness ==
    /\ call.name = "set"
    /\ made.factory = "values"
    /\ it.forwards
    /\ size(This) = 3
    /\ it.currentNode # null
    /\ nodes[it.currentNode].nextNode = _lastNode
    /\ nodes[_lastNode].key = call.key
    /\ it.currentNode \in Indexed(This)
\* the result and the cursor of the next() call of iterator i over heap h read
\* `node` as it was in heap `before` and step to its neighbour of then
YieldsRemoved(h, i, before, node) ==
    /\ next(h, i).result.value = getIteratorValue(i.getIteratorValue, before[node])
    /\ next(h, i).it.currentNode =
          IF i.forwards THEN before[node].nextNode ELSE before[node].prevNode

\* C30: delete(k) leaves the links of the node it removes: when the cursor of
\* an iterator is k's node at the call, has(k) is false afterwards, the next
\* next() yields k's entry and moves the cursor to the node that was k's
\* neighbour in the iterator's direction before the deletion; when k's node is
\* the start node of an iteratorFor(k) iterator, the same holds of the next()
\* call that follows reverseIterator(). A removed node an iterator still
\* holds is not changed by later set() and delete() calls.
C30_RemovedNodeKeepsLinks ==
    [][/\ (call'.name = "delete" /\ deleted' /\ made.factory # "none") =>
             LET node == _map[call'.key]
             IN  /\ ~has(ThisNext, call'.key)
                 /\ it.currentNode = node => YieldsRemoved(nodes', it', nodes, node)
                 /\ it.startNode = node =>
                       YieldsRemoved(nodes', iterReverseIterator(it'), nodes, node)
       /\ (call'.name \in {"set", "delete"} /\ made.factory # "none") =>
             \A node \in {it.currentNode, it.startNode} \ ({null, undefinedNode} \cup Indexed(This)) :
                 nodes'[node] = nodes[node]]_vars

\* delete(k) has removed the middle node of three while it was both the cursor
\* and the start node of an iteratorFor(k) iterator
C30_Witness ==
    /\ call.name = "delete"
    /\ deleted
    /\ made.factory = "iteratorFor"
    /\ ~has(This, call.key)
    /\ it.currentNode # null
    /\ it.currentNode = it.startNode
    /\ it.currentNode \notin Indexed(This)
    /\ nodes[it.currentNode].key = call.key
    /\ nodes[it.currentNode].prevNode = _firstNode
    /\ nodes[it.currentNode].nextNode = _lastNode
    /\ _firstNode # _lastNode
\* C31: delete(k) of a present key followed by set(k, v) leaves k at the tail,
\* and followed by setFirst(k, v) leaves k at the head, wherever k was before;
\* the other entries keep their keys, values and relative order.
C31_DeleteThenInsert ==
    [][/\ (call'.name = "delete" /\ has(This, call'.key)) =>
             \A others \in {Without(Pairs(This), call'.key)} :
                 \A v \in Values :
                     \A last \in {set(ThisNext, call'.key, v)},
                        first \in {setFirst(ThisNext, call'.key, v)} :
                         /\ Pairs(last) = Append(others, <<call'.key, v>>)
                         /\ last._lastNode = last._map[call'.key]
                         /\ Pairs(first) = <<(<<call'.key, v>>)>> \o others
                         /\ first._firstNode = first._map[call'.key]
       /\ (call.name = "delete" /\ deleted /\ call'.key = call.key) =>
             /\ call'.name = "set" =>
                   /\ Pairs(ThisNext) = Append(Pairs(This), <<call'.key, call'.value>>)
                   /\ _lastNode' = _map'[call'.key]
             /\ call'.name = "setFirst" =>
                   /\ Pairs(ThisNext) = <<(<<call'.key, call'.value>>)>> \o Pairs(This)
                   /\ _firstNode' = _map'[call'.key]]_vars

\* delete() has removed the first of three entries; set() of that key would
\* put it behind the two that are left and setFirst() in front of them
C31_Witness ==
    /\ call.name = "delete"
    /\ deleted
    /\ size(This) = 2
    /\ nodes[_firstNode].prevNode = null
    /\ DOMAIN nodes = {2, 3}
    /\ Pairs(set(This, call.key, "a"))[3] = <<call.key, "a">>
    /\ Pairs(setFirst(This, call.key, "a"))[1] = <<call.key, "a">>
\* C32: after any sequence of set, setFirst and delete calls on an empty map,
\* the map given the same calls with set and setFirst exchanged has the same
\* size, the same keys and the same value for each key, and its entries in
\* forward order are the entries of the first map in reverse order.
C32_MirrorImages ==
    /\ size(mirror) = size(This)
    /\ \A k \in Keys :
           /\ has(mirror, k) <=> has(This, k)
           /\ get(mirror, k) = get(This, k)
    /\ Spread(mirror.nodes, entries(mirror)).values =
          Reverse(Spread(nodes, entries(This)).values)
    /\ Pairs(mirror) = Reverse(Pairs(This))

\* setFirst() has put a third key in front of two others, after a delete()
\* freed the reference its node takes; in the second map the key is the last
C32_Witness ==
    /\ call.name = "setFirst"
    /\ size(This) = 3
    /\ _firstNode = _map[call.key]
    /\ _firstNode = 1
    /\ nodes[1].nextNode = 3
    /\ mirror._lastNode = mirror._map[call.key]
    /\ Pairs(mirror)[1] = Pairs(This)[3]
    /\ Pairs(This)[1][2] # Pairs(This)[3][2]
\* the calls made on the iterator object, as the actions record them
IteratorCalls == {"it.next", "it.reverseIterator", "it[Symbol.iterator]", "spread"}

\* C33: a call on an iterator whose direction is backward leaves it backward;
\* reverseIterator() leaves the direction backward, and a reverseIterator()
\* that follows a reverseIterator() directly leaves the iterator as it was.
C33_BackwardForGood ==
    [][/\ (call'.name \in IteratorCalls /\ ~it.forwards) => ~it'.forwards
       /\ call'.name = "it.reverseIterator" =>
             /\ ~it'.forwards
             /\ iterReverseIterator(it') = it'
       /\ (call.name \in {"it.reverseIterator", "reverseIterator"}
             /\ call'.name = "it.reverseIterator") => it' = it]_vars

\* reverseIterator() has been called on the iterator that
\* map.reverseIterator() returned, itself entries().reverseIterator(), after
\* the cursor had left the tail of three entries
C33_Witness ==
    /\ made.factory = "reverseIterator"
    /\ call.name = "it.reverseIterator"
    /\ size(This) = 3
    /\ ~it.forwards
    /\ it.currentNode = _lastNode
    /\ it.startNode = undefinedNode
\* C34: forEach (forEachReverse) with a callback that deletes the key it is
\* called with, and does nothing else, invokes the callback once for every
\* entry the map had at the call, in forward (reverse) order, and leaves the
\* map empty: no key, head and tail null, no node.
C34_DeletingCallbackVisitsAll ==
    [][call'.name \in {"forEach(delete)", "forEachReverse(delete)"} =>
          \A order \in {IF call'.name = "forEach(delete)" THEN Pairs(This)
                                                          ELSE Reverse(Pairs(This))} :
              /\ Len(invoked') = size(This)
              /\ \A j \in 1..Len(invoked') :
                     /\ invoked'[j].key = order[j][1]
                     /\ invoked'[j].value = order[j][2]
                     /\ invoked'[j].receiver = call'.value
                     /\ invoked'[j].map = MapRef
              /\ size(ThisNext) = 0
              /\ _map' = EmptyMap
              /\ _firstNode' = null
              /\ _lastNode' = null
              /\ nodes' = EmptyHeap
              /\ WellFormed(ThisNext)]_vars

\* forEachReverse() with the deleting callback has emptied a map of three
\* entries, the callback being invoked three times; one of the entries had
\* key and value undefined
C34_Witness ==
    /\ call.name = "forEachReverse(delete)"
    /\ Len(invoked) = 3
    /\ \A j, m \in 1..3 : j # m => invoked[j].key # invoked[m].key
    /\ invoked[1].receiver = "thisArg"
    /\ \E j \in 1..3 : invoked[j].key = undefined /\ invoked[j].value = undefined
    /\ size(This) = 0
    /\ _firstNode = null
    /\ _lastNode = null
====
